---- MODULE Spec2Model ----
(***************************************************************************)
(* The ATS resume evaluator of src/Codes.py as a state machine: one run of *)
(* the "Evaluate Resumes" button handler (lines 100-176), stepped stage by *)
(* stage (extract, call, parse, record, progress, export).                 *)
(*                                                                         *)
(* Text is modelled as a sequence of lexemes.  A model reply is a sequence *)
(* of tokens: "{", "}", a run of non-JSON prose, a JSON number literal, or *)
(* one object member ("key": value, with its separating comma).  json.loads*)
(* and the regular expression r"\{.*\}" are computed over these tokens.    *)
(* The prompt text is not modelled: the reply of the external model is     *)
(* nondeterministic whatever the prompt says.                              *)
(***************************************************************************)
EXTENDS Integers, Sequences, FiniteSets, TLC

\* ------------------------------------------------------------------ bounds
MaxFiles == 3
MaxReplyLen == 3
MaxParseLen == 4

\* -------------------------------------------------------------- JSON values
\* One shape for every JSON value: t is the Python type after decoding,
\* s a string payload, l a list of strings, o a dict as an association list
\* in insertion order (Python dicts keep insertion order).
JStr(s) == [t |-> "str", s |-> s, l |-> <<>>, o |-> <<>>]
JList(l) == [t |-> "list", s |-> "", l |-> l, o |-> <<>>]
JNum(s) == [t |-> "num", s |-> s, l |-> <<>>, o |-> <<>>]
JObj(o) == [t |-> "dict", s |-> "", l |-> <<>>, o |-> o]
NoValue == [t |-> "none", s |-> "", l |-> <<>>, o |-> <<>>]

\* ------------------------------------------------------------------ tokens
LB == [kind |-> "{", key |-> "", v |-> NoValue]
RB == [kind |-> "}", key |-> "", v |-> NoValue]
Prose == [kind |-> "text", key |-> "", v |-> NoValue]
Number == [kind |-> "num", key |-> "", v |-> JNum("42")]
Pair(k, v) == [kind |-> "pair", key |-> k, v |-> v]

PairJD == Pair("JD Match", JStr("80%"))
PairKwList == Pair("MissingKeywords", JList(<<"sql", "aws">>))
PairKwNum == Pair("MissingKeywords", JNum("5"))

ReplyTokens == {LB, RB, Prose, Number, PairJD, PairKwList, PairKwNum}

SeqsUpTo(S, n) == UNION {[1..k -> S] : k \in 0..n}

\* What the external model may answer in a run of the pipeline, and the
\* (longer) responses the parser is exercised on.
Replies == SeqsUpTo(ReplyTokens, MaxReplyLen)
ParseReplies == SeqsUpTo(ReplyTokens, MaxParseLen)

\* The fixed fallback text of get_gemini_response.
FallbackPayloadUnclosed ==
  << LB, Pair("JD Match", JStr("N/A")), Pair("MissingKeywords", JList(<<>>)),
     Pair("Profile Summary", JStr("Error")), Pair("Candidate Name", JStr("")),
     Pair("Role", JStr("")), Pair("Current Company", JStr("")),
     Pair("Duration", JStr("")), Pair("Overall Experience", JStr("")),
     Pair("LinkedIn", JStr("")) >>

FallbackPayload ==
  << LB, Pair("JD Match", JStr("N/A")), Pair("MissingKeywords", JList(<<>>)),
     Pair("Profile Summary", JStr("Error")), Pair("Candidate Name", JStr("")),
     Pair("Role", JStr("")), Pair("Current Company", JStr("")),
     Pair("Duration", JStr("")), Pair("Overall Experience", JStr("")),
     Pair("LinkedIn", JStr("")), RB >>

\* ------------------------------------------------------------- json.loads
HasKey(d, k) == \E i \in 1..Len(d) : d[i].key = k

\* dict[k] = v: a repeated key keeps its place and takes the later value.
DictPut(d, k, v) ==
  IF HasKey(d, k)
  THEN [i \in 1..Len(d) |-> IF d[i].key = k THEN [key |-> k, v |-> v] ELSE d[i]]
  ELSE Append(d, [key |-> k, v |-> v])

RECURSIVE DictOf(_)
DictOf(members) ==
  IF members = <<>> THEN <<>>
  ELSE LET n == Len(members)
       IN DictPut(DictOf(SubSeq(members, 1, n - 1)), members[n].key, members[n].v)

\* dict.get(k, default)
Get(d, k, default) ==
  IF HasKey(d, k)
  THEN d[CHOOSE i \in 1..Len(d) : d[i].key = k].v
  ELSE default

\* json.loads(text): a whole document is one number, or "{" members "}".
\* Anything else raises JSONDecodeError (ok = FALSE).
JsonLoads(text) ==
  LET n == Len(text)
  IN IF n = 1 /\ text[1].kind = "num"
     THEN [ok |-> TRUE, val |-> text[1].v]
     ELSE IF /\ n >= 2
             /\ text[1] = LB
             /\ text[n] = RB
             /\ \A i \in 2..(n - 1) : text[i].kind = "pair"
          THEN [ok |-> TRUE, val |-> JObj(DictOf(SubSeq(text, 2, n - 1)))]
          ELSE [ok |-> FALSE, val |-> NoValue]

\* ------------------------------------------------- re.search(r"\{.*\}", ..)
Positions(text, tok) == {i \in 1..Len(text) : text[i] = tok}
Min(S) == CHOOSE x \in S : \A y \in S : x <= y
Max(S) == CHOOSE x \in S : \A y \in S : x >= y

RegexSearchShort(text) ==
  LET opens == Positions(text, LB)
      closes == Positions(text, RB)
  IN IF opens # {} /\ closes # {} /\ Min(opens) < Max(closes)
     THEN [found |-> TRUE, group |-> SubSeq(text, Min(opens), Max(closes) - 1)]
     ELSE [found |-> FALSE, group |-> <<>>]

\* Leftmost match, greedy with DOTALL: from the first "{" to the last "}".
RegexSearch(text) ==
  LET opens == Positions(text, LB)
      closes == Positions(text, RB)
  IN IF opens # {} /\ closes # {} /\ Min(opens) < Max(closes)
     THEN [found |-> TRUE, group |-> SubSeq(text, Min(opens), Max(closes))]
     ELSE [found |-> FALSE, group |-> <<>>]

\* Lines 113-121: status "ok" (response_json bound), "skip" (st.error and
\* continue) or "raise" (the JSONDecodeError of line 118 is not caught).
ParseResponse(text) ==
  LET direct == JsonLoads(text)
      m == RegexSearch(text)
      second == JsonLoads(m.group)
  IN IF direct.ok
     THEN [status |-> "ok", via |-> "direct", val |-> direct.val]
     ELSE IF ~m.found
          THEN [status |-> "skip", via |-> "nomatch", val |-> NoValue]
          ELSE IF second.ok
               THEN [status |-> "ok", via |-> "fallback", val |-> second.val]
               ELSE [status |-> "raise", via |-> "badspan", val |-> NoValue]

\* ------------------------------------------------- field extraction, row
\* ", ".join(items) as the sequence of its pieces.
RECURSIVE Join(_, _)
Join(items, sep) ==
  IF Len(items) <= 1 THEN items
  ELSE <<items[1], sep>> \o Join(Tail(items), sep)

\* len(x) raises TypeError for a number; ", ".join(x) needs strings to join.
\* (A str under "MissingKeywords" would be joined character by character: no
\* reply drawn here carries one.)
HasLen(v) == v.t \in {"list", "str", "dict"}
Joinable(v) == v.t = "list"

\* Lines 123-166 for the decoded value val of the file called name:
\* "raise" with the uncaught exception, or "ok" with the row to append.
BuildRow(name, val) ==
  IF val.t # "dict"
  THEN [status |-> "raise", exc |-> "AttributeError", row |-> <<>>]
  ELSE LET d == val.o
           missing_keywords == Get(d, "MissingKeywords", JList(<<>>))
       IN IF ~HasLen(missing_keywords) \/ ~Joinable(missing_keywords)
          THEN [status |-> "raise", exc |-> "TypeError", row |-> <<>>]
          ELSE [status |-> "ok", exc |-> "",
                row |-> << [ResumeFile |-> name,
                            JDMatch |-> Get(d, "JD Match", JStr("N/A")),
                            CandidateName |-> Get(d, "Candidate Name", JStr("")),
                            Role |-> Get(d, "Role", JStr("")),
                            CurrentCompany |-> Get(d, "Current Company", JStr("")),
                            Duration |-> Get(d, "Duration", JStr("")),
                            OverallExperience |-> Get(d, "Overall Experience", JStr("")),
                            LinkedIn |-> Get(d, "LinkedIn", JStr("")),
                            MissingKeywords |-> Join(missing_keywords.l, ", "),
                            ProfileSummary |-> Get(d, "Profile Summary", JStr(""))] >>]

\* ------------------------------------------------------------- CSV export
CsvHeader ==
  << "Resume File", "JD Match", "Candidate Name", "Role", "Current Company",
     "Duration", "Overall Experience", "LinkedIn", "Missing Keywords",
     "Profile Summary" >>

CsvLine(row) ==
  << row.ResumeFile, row.JDMatch, row.CandidateName, row.Role,
     row.CurrentCompany, row.Duration, row.OverallExperience, row.LinkedIn,
     row.MissingKeywords, row.ProfileSummary >>

\* pd.DataFrame(results_data).to_csv(index=False)
ToCsv(rows) ==
  [header |-> CsvHeader, lines |-> [k \in 1..Len(rows) |-> CsvLine(rows[k])]]

NoDownload == [offered |-> FALSE, file_name |-> "", data |-> ToCsv(<<>>)]

OfferDownloadAlways(rows) == TRUE

\* Line 170: if results_data
OfferDownload(rows) == rows # <<>>

\* ------------------------------------------------------ run-level input
\* A file name as <<stem, extension>>; str.endswith looks at the tail.
FileNames == { <<"a", ".pdf">>, <<"b", ".docx">>, <<"c", ".txt">> }
EndsWith(name, suffix) == Len(name) > 0 /\ name[Len(name)] = suffix

\* The uploads of one run: distinct files, at most MaxFiles of them (with the
\* three names above, no run uploads more than three).
Uploads ==
  {fs \in SeqsUpTo(FileNames, MaxFiles) :
     \A i, j \in 1..Len(fs) : i # j => fs[i] # fs[j]}

\* The job description as a sequence of characters.
JdInputs == { <<>>, <<" ", " ">>, <<" ", "j", "d", " ">> }

IsSpace(c) == c = " "

RECURSIVE LStrip(_)
LStrip(s) == IF s # <<>> /\ IsSpace(Head(s)) THEN LStrip(Tail(s)) ELSE s

RECURSIVE RStrip(_)
RStrip(s) ==
  IF s # <<>> /\ IsSpace(s[Len(s)]) THEN RStrip(SubSeq(s, 1, Len(s) - 1)) ELSE s

StripNothing(s) == s

\* str.strip()
Strip(s) == RStrip(LStrip(s))

\* Line 103: not uploaded_files or not jd_input.strip()
Rejected(files, jd) == files = <<>> \/ Strip(jd) = <<>>

\* What PyPDF2 / docx2txt can do with a file: raise, or give its text.
DecoderResults ==
  { [raised |-> TRUE, text |-> <<>>], [raised |-> FALSE, text |-> <<"J", "d">>] }

LowerChar(c) == IF c = "J" THEN "j" ELSE IF c = "D" THEN "d" ELSE c
Lower(s) == [i \in 1..Len(s) |-> LowerChar(s[i])]

input_resume_text_always_decodes(name, dec) == dec

\* Lines 72-78: the decoders run for ".pdf" and ".docx" names only.
input_resume_text(name, dec) ==
  IF EndsWith(name, ".pdf") THEN dec
  ELSE IF EndsWith(name, ".docx") THEN dec
  ELSE [raised |-> FALSE, text |-> <<>>]

\* What the external model call can do: raise, or answer with some text.
ApiResults ==
  {[raised |-> TRUE, text |-> <<>>]} \cup {[raised |-> FALSE, text |-> r] : r \in Replies}

\* Lines 63-70: the text returned, and whether st.error was shown.
get_gemini_response(api) ==
  IF api.raised
  THEN [text |-> FallbackPayload, error |-> TRUE]
  ELSE [text |-> api.text, error |-> FALSE]

RecordCallWithRetry(c, i) == [c EXCEPT ![i + 1] = @ + 2]

\* One model.generate_content request for the resume at index i.
RecordCall(c, i) == [c EXCEPT ![i + 1] = @ + 1]

\* ------------------------------------------------------------------- state
VARIABLES
  jd_input,       \* the job-description text area
  uploaded_files, \* the uploader's files, in upload order
  pc,             \* where the script stands
  idx,            \* the loop index of line 107 (0-based)
  resume_text,    \* line 108
  response,       \* line 112
  response_json,  \* lines 114 / 118
  results_data,   \* line 100
  progress,       \* the progress bar: num/den, den = 0 before it exists
  download,       \* the download button of line 173
  errors,         \* the st.error messages shown, in order
  exc,            \* the uncaught exception that stopped the script, or ""
  calls,          \* model requests issued so far, per resume
  extracts,       \* loop indexes whose input_resume_text call was made
  path,           \* how each resume's response was decoded
  rowOf           \* the loop index each row of results_data came from

vars ==
  << jd_input, uploaded_files, pc, idx, resume_text, response, response_json,
     results_data, progress, download, errors, exc, calls, extracts, path, rowOf >>

NumFiles == Len(uploaded_files)
CurrentFile == uploaded_files[idx + 1]
NoBar == [num |-> 0, den |-> 0]
ErrorMsg(msg, at) == [msg |-> msg, at |-> at]

\* Everything a rerun of the script starts from (line 100: results_data = []).
FreshRun ==
  /\ results_data' = <<>>
  /\ download' = NoDownload
  /\ exc' = ""
  /\ idx' = 0
  /\ resume_text' = <<>>
  /\ response' = <<>>
  /\ response_json' = NoValue
  /\ calls' = [i \in 1..NumFiles |-> 0]
  /\ extracts' = {}
  /\ path' = [i \in 1..NumFiles |-> "none"]
  /\ rowOf' = <<>>

Init ==
  /\ jd_input \in JdInputs
  /\ uploaded_files \in Uploads
  /\ pc = "idle"
  /\ idx = 0
  /\ resume_text = <<>>
  /\ response = <<>>
  /\ response_json = NoValue
  /\ results_data = <<>>
  /\ progress = NoBar
  /\ download = NoDownload
  /\ errors = <<>>
  /\ exc = ""
  /\ calls = [i \in 1..Len(uploaded_files) |-> 0]
  /\ extracts = {}
  /\ path = [i \in 1..Len(uploaded_files) |-> "none"]
  /\ rowOf = <<>>

\* The iteration at idx is over: the next file, or the code after the loop.
\* The locals of the finished iteration are dead and are cleared.
NextIteration ==
  /\ idx' = idx + 1
  /\ pc' = IF idx + 1 < NumFiles THEN "extract" ELSE "export"
  /\ resume_text' = <<>>
  /\ response' = <<>>
  /\ response_json' = NoValue

\* Lines 100-106: the button is pressed; the script reruns from the top.
ClickEvaluate ==
  /\ pc \in {"idle", "rejected", "done", "crashed"}
  /\ FreshRun
  /\ IF Rejected(uploaded_files, jd_input)
     THEN /\ errors' = <<ErrorMsg("Please provide both JD and at least one resume.", -1)>>
          /\ progress' = NoBar
          /\ pc' = "rejected"
     ELSE /\ errors' = <<>>
          /\ progress' = [num |-> 0, den |-> 1]
          /\ pc' = "extract"
  /\ UNCHANGED <<jd_input, uploaded_files>>

\* Lines 108-109: text extraction; a decoder exception is not caught.
ExtractStep ==
  /\ pc = "extract"
  /\ \E dec \in DecoderResults :
       LET r == input_resume_text(CurrentFile, dec)
       IN /\ extracts' = extracts \cup {idx}
          /\ IF r.raised
             THEN /\ pc' = "crashed"
                  /\ exc' = "DecoderError"
                  /\ resume_text' = resume_text
             ELSE /\ pc' = "call"
                  /\ exc' = exc
                  /\ resume_text' = Lower(r.text)
  /\ UNCHANGED << jd_input, uploaded_files, idx, response, response_json,
                  results_data, progress, download, errors, calls, path, rowOf >>

\* Lines 111-112: one request to the external model.
CallStep ==
  /\ pc = "call"
  /\ \E api \in ApiResults :
       LET r == get_gemini_response(api)
       IN /\ response' = r.text
          /\ errors' = IF r.error
                       THEN Append(errors, ErrorMsg("Gemini API error", idx))
                       ELSE errors
  /\ calls' = RecordCall(calls, idx)
  /\ pc' = "parse"
  /\ UNCHANGED << jd_input, uploaded_files, idx, resume_text, response_json,
                  results_data, progress, download, exc, extracts, path, rowOf >>

\* Lines 113-121: decode, or search for "{...}" and decode that, or skip.
ParseStep ==
  /\ pc = "parse"
  /\ LET p == ParseResponse(response)
     IN /\ path' = [path EXCEPT ![idx + 1] = p.via]
        /\ CASE p.status = "ok" ->
                  /\ response_json' = p.val
                  /\ pc' = "record"
                  /\ UNCHANGED <<idx, resume_text, response, errors, exc>>
             [] p.status = "skip" ->
                  /\ errors' = Append(errors, ErrorMsg("Failed to parse JSON.", idx))
                  /\ NextIteration
                  /\ UNCHANGED exc
             [] OTHER ->
                  /\ pc' = "crashed"
                  /\ exc' = "JSONDecodeError"
                  /\ UNCHANGED <<idx, resume_text, response, response_json, errors>>
  /\ UNCHANGED << jd_input, uploaded_files, results_data, progress, download,
                  calls, extracts, rowOf >>

\* Lines 123-166: read the fields, show them, append the row.
RecordStep ==
  /\ pc = "record"
  /\ LET b == BuildRow(CurrentFile, response_json)
     IN IF b.status = "ok"
        THEN /\ results_data' = results_data \o b.row
             /\ rowOf' = Append(rowOf, idx)
             /\ pc' = "progress"
             /\ exc' = exc
        ELSE /\ pc' = "crashed"
             /\ exc' = b.exc
             /\ UNCHANGED <<results_data, rowOf>>
  /\ UNCHANGED << jd_input, uploaded_files, idx, resume_text, response,
                  response_json, progress, download, errors, calls, extracts, path >>

\* Line 168: progress.progress((idx + 1) / len(uploaded_files))
ProgressStep ==
  /\ pc = "progress"
  /\ progress' = [num |-> idx + 1, den |-> NumFiles]
  /\ NextIteration
  /\ UNCHANGED << jd_input, uploaded_files, results_data, download, errors, exc,
                  calls, extracts, path, rowOf >>

\* Lines 170-176: the download button, then the completion message.
ExportStep ==
  /\ pc = "export"
  /\ download' = IF OfferDownload(results_data)
                 THEN [offered |-> TRUE, file_name |-> "ats_report.csv",
                       data |-> ToCsv(results_data)]
                 ELSE NoDownload
  /\ pc' = "done"
  /\ UNCHANGED << jd_input, uploaded_files, idx, resume_text, response,
                  response_json, results_data, progress, errors, exc, calls,
                  extracts, path, rowOf >>

Next ==
  \/ ClickEvaluate
  \/ ExtractStep
  \/ CallStep
  \/ ParseStep
  \/ RecordStep
  \/ ProgressStep
  \/ ExportStep

Spec == Init /\ [][Next]_vars

\* The parser on longer responses: a one-file run that has just received
\* its response (the state CallStep leaves), followed to its end.
InitParse ==
  /\ jd_input = <<" ", "j", "d", " ">>
  /\ uploaded_files = << <<"a", ".pdf">> >>
  /\ pc = "parse"
  /\ idx = 0
  /\ resume_text = <<"j", "d">>
  /\ response \in ParseReplies
  /\ response_json = NoValue
  /\ results_data = <<>>
  /\ progress = [num |-> 0, den |-> 1]
  /\ download = NoDownload
  /\ errors = <<>>
  /\ exc = ""
  /\ calls = <<1>>
  /\ extracts = {0}
  /\ path = <<"none">>
  /\ rowOf = <<>>

NextParse ==
  \/ ParseStep
  \/ RecordStep
  \/ ProgressStep
  \/ ExportStep

SpecParse == InitParse /\ [][NextParse]_vars

\* ------------------------------------------------ vocabulary of the claims
Indices == 0..(NumFiles - 1)
RunEnded == pc \in {"done", "crashed"}
Shown(msg, i) == \E k \in 1..Len(errors) : errors[k] = ErrorMsg(msg, i)
ApiFailed(i) == Shown("Gemini API error", i)
RowsFrom(i) == {k \in 1..Len(rowOf) : rowOf[k] = i}
Decoded(i) == path[i + 1] \in {"direct", "fallback"}
Undecodable(i) == path[i + 1] \in {"nomatch", "badspan"}
\* The pipeline of resume i ran to its end: it was skipped, or its row recorded.
PipelineDone(i) == path[i + 1] = "nomatch" \/ RowsFrom(i) # {}
DecoderRaisedAt(i) == pc = "crashed" /\ exc = "DecoderError" /\ idx = i
Unsupported(name) == name[Len(name)] \notin {".pdf", ".docx"}
Blank(jd) == \A k \in 1..Len(jd) : jd[k] = " "

PlaceholderRow(name) ==
  [ResumeFile |-> name, JDMatch |-> JStr("N/A"), CandidateName |-> JStr(""),
   Role |-> JStr(""), CurrentCompany |-> JStr(""), Duration |-> JStr(""),
   OverallExperience |-> JStr(""), LinkedIn |-> JStr(""),
   MissingKeywords |-> <<>>, ProfileSummary |-> JStr("Error")]

\* r[i..j] is the text of a JSON object and the rest of r is other text around
\* it that keeps r as a whole from being a JSON document.
Embedding(r, i, j) ==
  /\ 1 <= i /\ i < j /\ j <= Len(r)
  /\ r[i] = LB /\ r[j] = RB
  /\ \A k \in (i + 1)..(j - 1) : r[k].kind = "pair"
  /\ (i > 1 \/ j < Len(r))
  /\ ~JsonLoads(r).ok
EmbeddedDict(r, i, j) == DictOf(SubSeq(r, i + 1, j - 1))
\* No "{" before the object and no "}" after it.
CleanSurround(r, i, j) ==
  /\ \A k \in 1..(i - 1) : r[k] # LB
  /\ \A k \in (j + 1)..Len(r) : r[k] # RB
KeywordsAreList(d) == Get(d, "MissingKeywords", JList(<<>>)).t = "list"
RowOfDict(name, d) ==
  [ResumeFile |-> name,
   JDMatch |-> Get(d, "JD Match", JStr("N/A")),
   CandidateName |-> Get(d, "Candidate Name", JStr("")),
   Role |-> Get(d, "Role", JStr("")),
   CurrentCompany |-> Get(d, "Current Company", JStr("")),
   Duration |-> Get(d, "Duration", JStr("")),
   OverallExperience |-> Get(d, "Overall Experience", JStr("")),
   LinkedIn |-> Get(d, "LinkedIn", JStr("")),
   MissingKeywords |-> Join(Get(d, "MissingKeywords", JList(<<>>)).l, ", "),
   ProfileSummary |-> Get(d, "Profile Summary", JStr(""))]
\* The parser has acted on the response still held in the state.
ParsedCurrent == pc \in {"record", "progress", "crashed"} /\ response # <<>>

\* ------------------------------------------------------------------ claims

\* C1 (as claimed): a resume whose response decodes neither directly nor from
\* the "{...}" substring found by the fallback search (no such substring, or a
\* substring that is not valid JSON) is skipped: it gets no row, "Failed to
\* parse JSON." is shown for it, and the loop moves on past it.
C1_UndecodableIsSkipped ==
  \A i \in Indices :
    Undecodable(i) =>
      /\ RowsFrom(i) = {}
      /\ Shown("Failed to parse JSON.", i)
      /\ idx > i

\* C2: when the model call for a resume raises, there is exactly one call for
\* it (no retry), the fallback text decodes directly, the run does not stop at
\* that resume, and once its iteration is over results_data holds exactly one
\* row for it, all placeholders with no missing keywords; a completed run in
\* which every response decoded directly (well-formed replies and service
\* failures) has as many rows as uploads.
C2_ApiFailureGivesPlaceholderRow ==
  /\ \A i \in Indices :
       ApiFailed(i) =>
         /\ calls[i + 1] = 1
         /\ Cardinality({k \in 1..Len(errors) : errors[k].at = i}) = 1
         /\ ~(pc = "crashed" /\ idx = i)
         /\ IF idx = i /\ pc = "parse"
            THEN response = FallbackPayload /\ path[i + 1] = "none"
            ELSE path[i + 1] = "direct"
         /\ (idx > i =>
               /\ Cardinality(RowsFrom(i)) = 1
               /\ \A k \in RowsFrom(i) :
                    results_data[k] = PlaceholderRow(uploaded_files[i + 1]))
  /\ (pc = "done" /\ (\A i \in Indices : path[i + 1] = "direct")
        => Len(results_data) = NumFiles)

\* C2 witness: 3 uploads, one service failure, two well-formed replies, 3 rows.
C2_Witness ==
  /\ pc = "done"
  /\ NumFiles = 3
  /\ Len(results_data) = 3
  /\ Cardinality({i \in Indices : ApiFailed(i)}) = 1
  /\ \A i \in Indices : path[i + 1] = "direct"
  /\ \E k \in 1..3 :
       /\ ApiFailed(rowOf[k])
       /\ results_data[k] = PlaceholderRow(uploaded_files[rowOf[k] + 1])

\* C3 (as claimed): no response of the external model (a service failure, text
\* that is not JSON, JSON that is not an object, an object without the
\* expected keys or with a "MissingKeywords" that is not a list) stops the
\* run: the script never ends in an uncaught exception once the call for the
\* current resume has been made.
C3_ReplyNeverAbortsBatch == ~(pc = "crashed" /\ calls[idx + 1] >= 1)

\* C4: with no uploaded file, or a job description that is empty or only
\* whitespace, the run is rejected with the validation error and no stage
\* runs: no extraction, no model call, no row, no progress bar, no download.
C4_InvalidInputRejected ==
  (uploaded_files = <<>> \/ Blank(jd_input)) =>
    /\ pc \in {"idle", "rejected"}
    /\ extracts = {}
    /\ \A i \in Indices : calls[i + 1] = 0
    /\ results_data = <<>>
    /\ progress = NoBar
    /\ ~download.offered
    /\ (pc = "rejected" =>
          errors = <<ErrorMsg("Please provide both JD and at least one resume.", -1)>>)

\* C4 witness: files are uploaded, the job description is two spaces, and the
\* button has been pressed.
C4_Witness ==
  pc = "rejected" /\ uploaded_files # <<>> /\ jd_input = <<" ", " ">>

\* C5 (as claimed): when the run has ended, every resume the loop reached has
\* had exactly one model call.
C5_OneCallPerReachedResume ==
  RunEnded => \A i \in extracts : calls[i + 1] = 1

\* C5 (amended): no resume ever has more than one model call; a call is made
\* only for a resume the loop has reached, and the loop reaches a resume only
\* after every earlier resume's pipeline ran to its end (row recorded, or
\* skipped) with its one call; when the run has ended every reached resume has
\* had exactly one call, except a resume whose text extraction raised, which
\* has had none.
C5_SequentialOneCall ==
  \A i \in Indices :
    /\ calls[i + 1] <= 1
    /\ (calls[i + 1] = 1 => i \in extracts)
    /\ (i \in extracts =>
          \A j \in 0..(i - 1) : PipelineDone(j) /\ calls[j + 1] = 1)
    /\ (RunEnded /\ i \in extracts /\ ~DecoderRaisedAt(i) => calls[i + 1] = 1)
    /\ (DecoderRaisedAt(i) => calls[i + 1] = 0)

\* C5 witness: the third resume's extraction raised after two full pipelines.
C5_Witness ==
  /\ DecoderRaisedAt(2)
  /\ calls = <<1, 1, 0>>
  /\ extracts = {0, 1, 2}

\* C6 (as claimed): outside the moment between decoding a response and
\* appending its row, results_data holds exactly one row per resume whose
\* response was decoded, in upload order, each carrying its file's name.
C6_OneRowPerDecodedResume ==
  pc # "record" =>
    /\ Len(rowOf) = Cardinality({i \in Indices : Decoded(i)})
    /\ \A k \in 1..Len(rowOf) :
         /\ Decoded(rowOf[k])
         /\ results_data[k].ResumeFile = uploaded_files[rowOf[k] + 1]
         /\ \A m \in 1..Len(rowOf) : k < m => rowOf[k] < rowOf[m]

\* C7: the download is offered only by a run that reached its end, and there
\* if and only if some resume's response was decoded; the artifact then is
\* ats_report.csv with the fixed header and one line per row of results_data,
\* in the same order.
C7_DownloadIffParsed ==
  /\ (pc # "done" => ~download.offered)
  /\ (pc = "done" =>
        /\ (download.offered <=> \E i \in Indices : Decoded(i))
        /\ (download.offered =>
              /\ download.file_name = "ats_report.csv"
              /\ download.data.header = CsvHeader
              /\ Len(download.data.lines) = Len(results_data)
              /\ \A k \in 1..Len(results_data) :
                   /\ download.data.lines[k][1] = results_data[k].ResumeFile
                   /\ download.data.lines[k][2] = results_data[k].JDMatch
                   /\ download.data.lines[k][9] = results_data[k].MissingKeywords
                   /\ download.data.lines[k][10] = results_data[k].ProfileSummary))

\* C7 witness: a completed run of 3 uploads, one of them skipped, offers a
\* CSV of 2 lines.
C7_Witness ==
  /\ pc = "done"
  /\ NumFiles = 3
  /\ download.offered
  /\ Len(download.data.lines) = 2
  /\ \E i \in Indices : path[i + 1] = "nomatch"

\* C8 (as claimed): whenever the iteration of the resume at index idx - 1 is
\* over, skipped or not, the progress shown is idx / (number of files), and it
\* is 1 when the run reports completion.
C8_ProgressTracksLoop ==
  /\ (pc \in {"extract", "export", "done"} /\ idx >= 1
        => progress = [num |-> idx, den |-> NumFiles])
  /\ (pc = "done" => progress.num = progress.den)

C10_DecoderFatalUnsupportedSilent ==
  /\ (pc = "crashed" /\ exc = "DecoderError" =>
        /\ \A j \in idx..(NumFiles - 1) : calls[j + 1] = 0 /\ RowsFrom(j) = {}
        /\ ~download.offered
        /\ ~Unsupported(CurrentFile))
  /\ \A i \in extracts :
       Unsupported(uploaded_files[i + 1]) =>
         /\ ~DecoderRaisedAt(i)
         /\ IF pc = "call" /\ idx = i
            THEN resume_text = <<>> /\ calls[i + 1] = 0
            ELSE calls[i + 1] = 1
         /\ ~\E k \in 1..Len(errors) :
               errors[k].at = i
               /\ errors[k].msg \notin {"Gemini API error", "Failed to parse JSON."}

\* C10 witness: c.txt went through (one call, one row), then a.pdf's decoder
\* raised.
C10_Witness ==
  /\ DecoderRaisedAt(1)
  /\ Unsupported(uploaded_files[1])
  /\ calls = <<1, 0>>
  /\ Len(results_data) = 1

====
